---- MODULE Spec2Model ----
(***************************************************************************)
(* A model of src/node/terminal.ts: the Terminal facade, its four platform *)
(* strategies (Default, Windows, Linux, macOS), the promises their         *)
(* operations return, the events of the child processes they spawn, and    *)
(* the pure helpers quote and extendObject.                                *)
(*                                                                         *)
(* Strings of the program are TLA+ strings, joined with \o, except the     *)
(* arguments handed to quote, which are sequences of one-character strings *)
(* so that quote can look for the space character as the code does.        *)
(***************************************************************************)
EXTENDS Integers, Sequences, FiniteSets, TLC

VARIABLES
    platform,          \* process.platform
    files,             \* the paths FS.existsSync answers true for
    _terminalService,  \* Terminal._terminalService: 0 (unset) or the index of an instance in constructed
    constructed,       \* every strategy instance constructed so far, in order (its class)
    calls,             \* one record per call of the facade: its promise and child process, or what isOnPath returned
    qArgs,             \* the argument list handed to quote
    qR,                \* the string quote returned
    qDone              \* whether quote has run on qArgs

vars == <<platform, files, _terminalService, constructed, calls, qArgs, qR, qDone>>

(***************************************************************************)
(* Bounds of the model.                                                    *)
(***************************************************************************)
\* how many calls of launchInTerminal, killTree and isOnPath one run makes
MaxCalls == 2
\* how many chunks the child processes of one run write to their error streams
MaxChunks == 3
\* how many arguments quote is handed
MaxArgs == 2
\* how many characters one argument of quote has
MaxArgLen == 2

(***************************************************************************)
(* Program constants.                                                      *)
(***************************************************************************)
WHICH == "/usr/bin/which"
CMD == "cmd.exe"
WHERE == "where"
LINUX_TERM == "/usr/bin/gnome-terminal"
OSASCRIPT == "/usr/bin/osascript"
TERMINAL_TITLE == "VS Code Console"
WAIT_MESSAGE == "Press any key to continue..."
\* the linkId of the "not found" TerminalError
ProgramNotFoundLinkId == 20002

(***************************************************************************)
(* The environment's inputs.                                               *)
(***************************************************************************)
Platforms == {"win32", "darwin", "linux", "freebsd"}
Paths == {WHICH, LINUX_TERM}
ErrorCodes == {"ENOENT", "EACCES"}
\* the error of the 'error' event of a child process
ChildErrorCodes == {"ENOENT"}
ExitCodes == {0, 1}
Programs == {"node", ""}
Dir == "/tmp"
Pids == {1234}
DirName == "__dirname"
\* objects are sequences of <<key, value>> pairs in the order for-in lists the
\* keys: the array-index keys in ascending order, then the others as inserted
ProcessEnv == <<<<"PATH", "/bin">>>>
\* the envVars of a call: two plain variables, or a variable named hasOwnProperty
EnvVarsSet == {<<<<"PATH", "/custom">>, <<"FOO", "1">>>>, <<<<"hasOwnProperty", "x">>>>}
\* what CP.spawn can do: return a child process; throw (E2BIG, say, for an
\* argument list too long for the system); or, when the process cannot be
\* started for want of file descriptors (EMFILE), return a child without pid
\* and without stdio streams, whose 'error' event comes later
SpawnOutcomes ==
    {[how |-> "child", error |-> ""],
     [how |-> "throw", error |-> "E2BIG"],
     [how |-> "nostdio", error |-> "EMFILE"]}
SP == " "
DQ == "\""
QChars == {"a", SP, DQ}
\* the argument lists launchInTerminal is called with: a program and an argument
\* with a space in it (the calls never branch on their arguments; quote is checked
\* on every argument list under SpecQuote)
LaunchArgs == {<<<<"n">>, <<"x", SP, "y">>>>}

\* what CP.execSync can do: the command ran and exited with a status, or could not be run
ExecSyncOutcomes ==
    [how : {"status"}, status : ExitCodes, error : {""}]
        \cup [how : {"error"}, status : {-1}, error : ErrorCodes]
\* what CP.spawnSync can do: as execSync, or an exception while spawning
SpawnSyncOutcomes ==
    ExecSyncOutcomes \cup [how : {"throw"}, status : {-1}, error : {"TypeError"}]

\* no synchronous command was run
NoSync == [how |-> "none", status |-> -1, error |-> ""]

(***************************************************************************)
(* Values: what a promise is settled with.                                 *)
(***************************************************************************)
Undefined == [type |-> "undefined"]
NoLinkId == <<>>
ChildProcess(i) == [type |-> "ChildProcess", id |-> i]
NativeError(code) == [type |-> "Error", code |-> code]
TerminalError(message, linkId) ==
    [type |-> "TerminalError", message |-> message, linkId |-> linkId]

(***************************************************************************)
(* Pure helpers.                                                           *)
(***************************************************************************)
\* a sequence of one-character strings as one string
RECURSIVE Str(_)
Str(cs) == IF cs = <<>> THEN "" ELSE Head(cs) \o Str(Tail(cs))

\* a.indexOf(' ') >= 0
HasSpace(a) == \E k \in DOMAIN a : a[k] = SP

\* one turn of quote's loop: what it appends to r for the argument a
QuotePiece(a) == (IF HasSpace(a) THEN <<DQ>> \o a \o <<DQ>> ELSE a) \o <<SP>>

RECURSIVE quote(_)
quote(args) ==
    IF args = <<>> THEN <<>> ELSE QuotePiece(Head(args)) \o quote(Tail(args))

\* args.join(sep), as one string
RECURSIVE Join(_, _)
Join(args, sep) ==
    IF args = <<>> THEN ""
    ELSE IF Len(args) = 1 THEN Str(args[1])
    ELSE Str(args[1]) \o sep \o Join(Tail(args), sep)

HasKey(obj, k) == \E n \in DOMAIN obj : obj[n][1] = k

Digits == {"0", "1", "2", "3", "4", "5", "6", "7", "8", "9"}

RECURSIVE AllDigits(_)
AllDigits(k) == k = "" \/ (Head(k) \in Digits /\ AllDigits(Tail(k)))

DigitVal(ch) ==
    CASE ch = "0" -> 0 [] ch = "1" -> 1 [] ch = "2" -> 2 [] ch = "3" -> 3
      [] ch = "4" -> 4 [] ch = "5" -> 5 [] ch = "6" -> 6 [] ch = "7" -> 7
      [] ch = "8" -> 8 [] OTHER -> 9

\* a < b for two digit strings of one length
RECURSIVE DigitsLess(_, _)
DigitsLess(a, b) ==
    /\ a # ""
    /\ \/ DigitVal(Head(a)) < DigitVal(Head(b))
       \/ Head(a) = Head(b) /\ DigitsLess(Tail(a), Tail(b))

\* a < b for two canonical numerals
IndexLess(a, b) == Len(a) < Len(b) \/ (Len(a) = Len(b) /\ DigitsLess(a, b))

\* the largest array index, 2^32 - 2
MaxArrayIndex == "4294967294"

\* whether the key is an array index: the canonical numeral of an integer from
\* 0 to 2^32 - 2.  An object lists such keys first, in ascending order.
IsArrayIndex(k) ==
    /\ k # ""
    /\ AllDigits(k)
    /\ k = "0" \/ Head(k) # "0"
    /\ ~IndexLess(MaxArrayIndex, k)

\* the object with the own property k set to v: an own key keeps its place, a
\* new array index goes in among the array indices, any other new key goes last
DefineKey(obj, k, v) ==
    IF HasKey(obj, k)
    THEN [n \in DOMAIN obj |-> IF obj[n][1] = k THEN <<k, v>> ELSE obj[n]]
    ELSE IF IsArrayIndex(k)
    THEN LET before == Cardinality({n \in DOMAIN obj :
                           IsArrayIndex(obj[n][1]) /\ IndexLess(obj[n][1], k)})
         IN  SubSeq(obj, 1, before) \o <<<<k, v>>>> \o SubSeq(obj, before + 1, Len(obj))
    ELSE Append(obj, <<k, v>>)

\* the own properties of an object literal written in the order of pairs, as
\* for-in lists them
RECURSIVE ForIn(_)
ForIn(pairs) ==
    IF pairs = <<>> THEN <<>>
    ELSE LET n == Len(pairs)
         IN  DefineKey(ForIn(SubSeq(pairs, 1, n - 1)), pairs[n][1], pairs[n][2])

\* objectCopy[key] = value, for a plain object and a string value.  The key
\* __proto__ is the setter inherited from Object.prototype, which ignores a
\* value that is neither an object nor null: the object gets no own property.
SetKey(obj, k, v) ==
    IF k = "__proto__" THEN obj ELSE DefineKey(obj, k, v)

\* the loop of extendObject over the keys left to visit, for an object whose
\* hasOwnProperty is the inherited one
RECURSIVE CopyKeysFrom(_, _)
CopyKeysFrom(objectCopy, keys) ==
    IF keys = <<>> THEN objectCopy
    ELSE CopyKeysFrom(SetKey(objectCopy, keys[1][1], keys[1][2]), Tail(keys))

CopyKeys(objectCopy, object) == CopyKeysFrom(ForIn(objectCopy), ForIn(object))

\* extendObject: threw is "" and obj the extended copy, or threw names the
\* exception.  object.hasOwnProperty(key) is called for the first key; when
\* the object has an own key hasOwnProperty (a string, for an environment),
\* that is not a function and the call throws a TypeError.
extendObject(objectCopy, object) ==
    IF object # <<>> /\ HasKey(object, "hasOwnProperty")
    THEN [threw |-> "TypeError", obj |-> <<>>]
    ELSE [threw |-> "", obj |-> CopyKeys(objectCopy, object)]

\* extendObject(extendObject({ }, process.env), envVars): the environment handed
\* to CP.spawn, or the exception of either call
MergedEnv(envVars) ==
    LET inner == extendObject(<<>>, ProcessEnv)
    IN  IF inner.threw # "" THEN inner ELSE extendObject(inner.obj, envVars)

(***************************************************************************)
(* Promises.  A call record holds the promise the call returned: state and *)
(* value, the value being what the caller sees of the object the promise   *)
(* was settled with.                                                       *)
(***************************************************************************)
\* resolve and reject of the promise: the first one settles it, a later one is ignored
Settle(c, st, v) ==
    IF c.state = "pending"
    THEN [c EXCEPT !.state = st, !.value = v]
    ELSE c

resolve(c, v) == Settle(c, "fulfilled", v)
reject(c, e) == Settle(c, "rejected", e)

\* a call as new Promise(...) starts it, before the executor has run
NewCall(op, kind) ==
    [op |-> op, kind |-> kind,
     state |-> "pending", value |-> Undefined,
     spawned |-> FALSE, file |-> "", argv |-> <<>>, env |-> <<>>,
     failing |-> "", errored |-> "", exitCode |-> -1,
     out |-> 0, outAtExit |-> -1, stderr |-> "",
     thrown |-> "", sync |-> NoSync, program |-> "", ran |-> FALSE, command |-> "", ret |-> "none"]

\* CP.spawn(file, argv, options): the child process of the call, or the exception
\* CP.spawn throws, in thrown; then there is no child.  failing is the error of
\* a child that was returned although the process could not be started: it has
\* no stdio streams, and 'error' is the one event it will emit.
spawn(c, file, argv, env, so) ==
    IF so.how = "throw"
    THEN [c EXCEPT !.thrown = so.error]
    ELSE [c EXCEPT !.spawned = TRUE, !.file = file, !.argv = argv, !.env = env,
                   !.failing = IF so.how = "nostdio" THEN so.error ELSE ""]

\* an exception leaves the executor: new Promise rejects the promise with it
ExecutorThrows(c, e) == reject([c EXCEPT !.thrown = e], NativeError(e))

(***************************************************************************)
(* Terminal.terminalService(): the strategy is chosen on the first call.   *)
(***************************************************************************)
\* a mutant of NeedsConstruction: no check of the cached instance
AlwaysConstruct == TRUE

\* !this._terminalService
NeedsConstruction == _terminalService = 0

\* the class the chain of process.platform tests picks
SelectKind(p) ==
    IF p = "win32" THEN "Windows"
    ELSE IF p = "darwin" THEN "Mac"
    ELSE IF p = "linux" THEN "Linux"
    ELSE "Default"

\* the class of the instance terminalService() returns
ServiceKind ==
    IF NeedsConstruction THEN SelectKind(platform) ELSE constructed[_terminalService]

terminalService ==
    /\ constructed' =
         IF NeedsConstruction THEN Append(constructed, SelectKind(platform))
         ELSE constructed
    /\ _terminalService' =
         IF NeedsConstruction THEN Len(constructed) + 1 ELSE _terminalService

(***************************************************************************)
(* launchInTerminal of the four strategies: the executor of the promise,   *)
(* for call number i.                                                      *)
(***************************************************************************)
DefaultLaunch(c) ==
    reject(c, TerminalError(
        "External console not implemented on '" \o platform \o "'.", NoLinkId))

WindowsLaunch(c, i, dir, args, envVars, so) ==
    LET title == DQ \o dir \o " - " \o TERMINAL_TITLE \o DQ
        command == DQ \o DQ \o Join(args, DQ \o SP \o DQ) \o DQ \o " & pause" \o DQ
        cmdArgs == <<"/c", "start", title, "/wait", "cmd.exe", "/c", command>>
        env == MergedEnv(envVars)
        cmd == spawn(c, CMD, cmdArgs, env.obj, so)
    IN  IF env.threw # "" THEN ExecutorThrows(c, env.threw)
        ELSE IF cmd.thrown # "" THEN ExecutorThrows(c, cmd.thrown)
        ELSE resolve(cmd, ChildProcess(i))

\* a mutant of LinuxTermMissing: the test of the emulator's presence is skipped
LinuxTermNeverMissing == FALSE

\* !FS.existsSync(LinuxTerminalService.LINUX_TERM)
LinuxTermMissing == LINUX_TERM \notin files

LinuxLaunch(c, dir, args, envVars, so) ==
    IF LinuxTermMissing
    THEN reject(c, TerminalError(
             "'" \o LINUX_TERM \o "' not found", <<ProgramNotFoundLinkId>>))
    ELSE LET bashCommand ==
                 Str(quote(args)) \o "; echo; read -p " \o DQ \o WAIT_MESSAGE
                     \o DQ \o " -n1;"
             termArgs == <<"--title", DQ \o TERMINAL_TITLE \o DQ,
                           "-x", "bash", "-c", "''" \o bashCommand \o "''">>
             env == MergedEnv(envVars)
             cmd == spawn(c, LINUX_TERM, termArgs, env.obj, so)
         IN  IF env.threw # "" THEN ExecutorThrows(c, env.threw)
             ELSE IF cmd.thrown # "" THEN ExecutorThrows(c, cmd.thrown)
             ELSE cmd

RECURSIVE PaArgs(_)
PaArgs(args) ==
    IF args = <<>> THEN <<>> ELSE <<"-pa", Str(Head(args))>> \o PaArgs(Tail(args))

\* the loop over the keys of envVars left to visit
RECURSIVE EArgsFrom(_)
EArgsFrom(keys) ==
    IF keys = <<>> THEN <<>>
    ELSE <<"-e", keys[1][1] \o "=" \o keys[1][2]>> \o EArgsFrom(Tail(keys))

EArgs(envVars) == EArgsFrom(ForIn(envVars))

\* osa.stderr is undefined for a child returned without stdio streams
HasStdio(c) == c.failing = ""

\* osa.on('error', reject) has been called when osa.stderr.on is: for a child
\* without stdio streams the latter throws a TypeError out of the executor, so
\* the promise is rejected with it while the child exists, and the child's
\* later 'error' finds the promise settled
MacLaunch(c, dir, args, envVars, so) ==
    LET osaArgs == <<DirName \o "/terminalHelper.scpt", "-t", TERMINAL_TITLE, "-w", dir>>
                       \o PaArgs(args) \o EArgs(envVars)
        osa == spawn([c EXCEPT !.stderr = ""], OSASCRIPT, osaArgs, <<>>, so)
    IN  IF osa.thrown # "" THEN ExecutorThrows(c, osa.thrown)
        ELSE IF ~HasStdio(osa) THEN ExecutorThrows(osa, "TypeError")
        ELSE osa

\* the launchInTerminal of the instance's class
launchInTerminal(kind, c, i, dir, args, envVars, so) ==
    IF kind = "Windows" THEN WindowsLaunch(c, i, dir, args, envVars, so)
    ELSE IF kind = "Linux" THEN LinuxLaunch(c, dir, args, envVars, so)
    ELSE IF kind = "Mac" THEN MacLaunch(c, dir, args, envVars, so)
    ELSE DefaultLaunch(c)

(***************************************************************************)
(* The listeners the strategies register on the child process.             *)
(***************************************************************************)
\* cmd.on('error', reject), osa.on('error', reject)
OnError(c, e) == reject(c, NativeError(e))

\* a mutant of LinuxOnExit: the exit code is not looked at
LinuxOnExitAnyCode(c, code) == resolve(c, Undefined)

LinuxOnExit(c, code) ==
    IF code = 0 THEN resolve(c, Undefined)
    ELSE reject(c, TerminalError(
             LINUX_TERM \o " failed with exit code " \o ToString(code), NoLinkId))

\* a mutant of MacOnExit: the captured error-stream text is not used
MacOnExitGeneric(c, code) ==
    IF code = 0 THEN resolve(c, Undefined)
    ELSE reject(c, TerminalError(
             OSASCRIPT \o " failed with exit code " \o ToString(code), NoLinkId))

MacOnExit(c, code) ==
    IF code = 0 THEN resolve(c, Undefined)
    ELSE IF c.stderr # "" THEN reject(c, TerminalError(c.stderr, NoLinkId))
    ELSE reject(c, TerminalError(
             OSASCRIPT \o " failed with exit code " \o ToString(code), NoLinkId))

\* a mutant of MacOnStderrData: the text is collected in the message of one
\* error object, which 'exit' hands to reject, instead of in a string of its
\* own: data after the exit then shows in the error the promise was rejected with
MacOnStderrDataIntoError(c, data) ==
    IF c.state = "rejected" /\ c.exitCode > 0 /\ c.outAtExit > 0
    THEN [c EXCEPT !.stderr = @ \o data,
                   !.value = TerminalError(c.stderr \o data, NoLinkId)]
    ELSE [c EXCEPT !.stderr = @ \o data]

\* osa.stderr.on('data', ...): stderr += data.toString().  The string handed to
\* new TerminalError at 'exit' is a value: appending to stderr afterwards makes
\* a new string and leaves the error's message as it was.
MacOnStderrData(c, data) == [c EXCEPT !.stderr = @ \o data]

\* the 'exit' listeners of the call's child, if its strategy registered one
\* (the executor of the Mac strategy registers it last, unless it threw before)
OnExit(c, code) ==
    IF c.kind = "Linux" THEN LinuxOnExit(c, code)
    ELSE IF c.kind = "Mac" /\ c.thrown = "" THEN MacOnExit(c, code)
    ELSE c

\* the 'data' listeners of the child's error stream, if its strategy registered one
OnStderrData(c, data) ==
    IF c.kind = "Mac" THEN MacOnStderrData(c, data) ELSE c

\* the k-th chunk the child process of call i writes to its error stream
Chunk(i, k) == "p" \o ToString(i) \o "e" \o ToString(k) \o ";"

(***************************************************************************)
(* killTree.                                                               *)
(***************************************************************************)
\* CP.execSync throws when the command cannot be run or exits non-zero
ExecSyncThrows(o) == o.how # "status" \/ o.status # 0

ExecSyncError(o) ==
    IF o.how = "status" THEN NativeError("Command failed") ELSE NativeError(o.error)

\* a mutant of DefaultKillTree: a non-zero exit of the script is taken for a failure
DefaultKillTreeStrict(c, pid, o) ==
    LET cmd == DirName \o "/terminateProcess.sh"
        d == [c EXCEPT !.file = cmd, !.argv = <<ToString(pid)>>, !.sync = o]
    IN  IF o.how # "status" \/ o.status # 0
        THEN reject(d, NativeError(IF o.how = "status" THEN "Command failed" ELSE o.error))
        ELSE resolve(d, Undefined)

DefaultKillTree(c, pid, o) ==
    LET cmd == DirName \o "/terminateProcess.sh"
        d == [c EXCEPT !.file = cmd, !.argv = <<ToString(pid)>>, !.sync = o]
    IN  IF o.how = "throw" THEN reject(d, NativeError(o.error))
        ELSE IF o.how = "error" THEN reject(d, NativeError(o.error))
        ELSE resolve(d, Undefined)

WindowsKillTree(c, pid, o) ==
    LET cmd == "taskkill /F /T /PID " \o ToString(pid)
        d == [c EXCEPT !.file = cmd, !.sync = o]
    IN  IF ExecSyncThrows(o) THEN reject(d, ExecSyncError(o))
        ELSE resolve(d, Undefined)

\* the killTree of the instance's class: Linux and Mac inherit the Default one
killTree(kind, c, pid, o) ==
    IF kind = "Windows" THEN WindowsKillTree(c, pid, o) ELSE DefaultKillTree(c, pid, o)

(***************************************************************************)
(* isOnPath.  ret is what comes back to the caller: "true", "false", or    *)
(* "throw" when an exception leaves the method.                            *)
(***************************************************************************)
\* the try block of DefaultTerminalService.isOnPath
DefaultIsOnPathTry(program, o) ==
    IF ~ (WHICH \in files)
    THEN [ran |-> TRUE, command |-> WHICH \o " '" \o program \o "'",
          ret |-> IF ExecSyncThrows(o) THEN "throw" ELSE "true"]
    ELSE [ran |-> FALSE, command |-> "", ret |-> "true"]

\* the try block of WindowsTerminalService.isOnPath
WindowsIsOnPathTry(program, o) ==
    [ran |-> TRUE, command |-> WHERE \o " " \o program,
     ret |-> IF ExecSyncThrows(o) THEN "throw" ELSE "true"]

\* a mutant of Catch: the exception is not caught
CatchNothing(r) == r

\* catch (Exception) { } return false;
Catch(r) == IF r.ret = "throw" THEN [r EXCEPT !.ret = "false"] ELSE r

\* the isOnPath of the instance's class: Linux and Mac inherit the Default one
isOnPath(kind, program, o) ==
    IF kind = "Windows" THEN Catch(WindowsIsOnPathTry(program, o))
    ELSE Catch(DefaultIsOnPathTry(program, o))

(***************************************************************************)
(* The operations of the Terminal facade.                                  *)
(***************************************************************************)
LaunchInTerminal(dir, args, envVars, so) ==
    /\ Len(calls) < MaxCalls
    /\ terminalService
    /\ LET i == Len(calls) + 1
           c == NewCall("launchInTerminal", ServiceKind)
       IN  calls' = Append(calls, launchInTerminal(ServiceKind, c, i, dir, args, envVars, so))
    /\ UNCHANGED <<platform, files, qArgs, qR, qDone>>

KillTree(pid, o) ==
    /\ Len(calls) < MaxCalls
    /\ ServiceKind = "Windows" => o \in ExecSyncOutcomes
    /\ terminalService
    /\ calls' = Append(calls, killTree(ServiceKind, NewCall("killTree", ServiceKind), pid, o))
    /\ UNCHANGED <<platform, files, qArgs, qR, qDone>>

IsOnPath(program, o) ==
    /\ Len(calls) < MaxCalls
    /\ terminalService
    /\ LET r == isOnPath(ServiceKind, program, o)
           c == NewCall("isOnPath", ServiceKind)
       IN  calls' = Append(calls, [c EXCEPT !.state = "none", !.program = program, !.sync = o,
                                           !.ran = r.ran, !.command = r.command, !.ret = r.ret])
    /\ UNCHANGED <<platform, files, qArgs, qR, qDone>>

(***************************************************************************)
(* The events of the child processes.  A child whose spawn failed emits    *)
(* 'error' and no 'exit', and writes nothing; a child that ran emits       *)
(* 'exit'; its error stream delivers data, before and after 'exit', when a *)
(* 'data' listener made it flow.                                           *)
(***************************************************************************)
Alive(c) == c.spawned /\ c.errored = "" /\ c.exitCode = -1

\* the chunks written so far by all child processes
RECURSIVE TotalOut(_)
TotalOut(cs) == IF cs = <<>> THEN 0 ELSE Head(cs).out + TotalOut(Tail(cs))

\* whether the strategy put a 'data' listener on the child's error stream
HasStderrListener(c) == c.kind = "Mac" /\ c.thrown = ""

\* the errors the 'error' event of the child can carry
ErrorsOf(c) == IF c.failing # "" THEN {c.failing} ELSE ChildErrorCodes

EmitError(i, e) ==
    /\ Alive(calls[i])
    /\ calls[i].out = 0
    /\ e \in ErrorsOf(calls[i])
    /\ calls' = [calls EXCEPT ![i] = OnError([@ EXCEPT !.errored = e], e)]
    /\ UNCHANGED <<platform, files, _terminalService, constructed, qArgs, qR, qDone>>

EmitExit(i, code) ==
    /\ Alive(calls[i])
    /\ calls[i].failing = ""
    /\ calls' = [calls EXCEPT
                   ![i] = OnExit([@ EXCEPT !.exitCode = code, !.outAtExit = calls[i].out], code)]
    /\ UNCHANGED <<platform, files, _terminalService, constructed, qArgs, qR, qDone>>

EmitStderr(i) ==
    /\ calls[i].spawned
    /\ calls[i].errored = ""
    /\ HasStdio(calls[i])
    /\ HasStderrListener(calls[i])
    /\ TotalOut(calls) < MaxChunks
    /\ calls' = [calls EXCEPT
                   ![i] = OnStderrData([@ EXCEPT !.out = @ + 1], Chunk(i, calls[i].out + 1))]
    /\ UNCHANGED <<platform, files, _terminalService, constructed, qArgs, qR, qDone>>

\* 'exit' after 'error'.  Node emits 'error' and then 'exit' only for a child
\* that ran and could not be killed or messaged, which no strategy does to its
\* child: the order is part of NextAnyOrder alone, where the promise is checked
\* against every order of the two events.
EmitExitAfterError(i, code) ==
    /\ calls[i].spawned
    /\ calls[i].errored # ""
    /\ calls[i].failing = ""
    /\ calls[i].exitCode = -1
    /\ calls' = [calls EXCEPT
                   ![i] = OnExit([@ EXCEPT !.exitCode = code, !.outAtExit = calls[i].out], code)]
    /\ UNCHANGED <<platform, files, _terminalService, constructed, qArgs, qR, qDone>>

\* 'error' after 'exit'
EmitErrorAfterExit(i, e) ==
    /\ calls[i].spawned
    /\ calls[i].errored = ""
    /\ calls[i].exitCode # -1
    /\ calls' = [calls EXCEPT ![i] = OnError([@ EXCEPT !.errored = e], e)]
    /\ UNCHANGED <<platform, files, _terminalService, constructed, qArgs, qR, qDone>>

(***************************************************************************)
(* quote as an operation of its own.                                       *)
(***************************************************************************)
Quote ==
    /\ ~ qDone
    /\ qR' = quote(qArgs)
    /\ qDone' = TRUE
    /\ UNCHANGED <<platform, files, _terminalService, constructed, calls, qArgs>>

(***************************************************************************)
(* Specifications.  Spec: the facade's operations and the events of the    *)
(* child processes as Node delivers them.  SpecAnyOrder: the same, with    *)
(* 'error' and 'exit' of one child in every order.  SpecQuote: quote on    *)
(* every argument list within the bounds.                                  *)
(***************************************************************************)
Init ==
    /\ platform \in Platforms
    /\ files \in SUBSET Paths
    /\ _terminalService = 0
    /\ constructed = <<>>
    /\ calls = <<>>
    /\ qArgs = <<>>
    /\ qR = <<>>
    /\ qDone = FALSE

Next ==
    \/ \E args \in LaunchArgs, envVars \in EnvVarsSet, so \in SpawnOutcomes :
           LaunchInTerminal(Dir, args, envVars, so)
    \/ \E pid \in Pids, o \in SpawnSyncOutcomes : KillTree(pid, o)
    \/ \E program \in Programs, o \in ExecSyncOutcomes : IsOnPath(program, o)
    \/ \E i \in DOMAIN calls : \E e \in ErrorsOf(calls[i]) : EmitError(i, e)
    \/ \E i \in DOMAIN calls, code \in ExitCodes : EmitExit(i, code)
    \/ \E i \in DOMAIN calls : EmitStderr(i)

Spec == Init /\ [][Next]_vars

\* the same with 'error' and 'exit' of one child in every order
NextAnyOrder ==
    \/ Next
    \/ \E i \in DOMAIN calls, code \in ExitCodes : EmitExitAfterError(i, code)
    \/ \E i \in DOMAIN calls, e \in ChildErrorCodes : EmitErrorAfterExit(i, e)

SpecAnyOrder == Init /\ [][NextAnyOrder]_vars

\* the strings of at most n characters
RECURSIVE StringsUpTo(_)
StringsUpTo(n) ==
    IF n = 0 THEN {<<>>}
    ELSE StringsUpTo(n - 1) \cup {Append(s, ch) : s \in StringsUpTo(n - 1), ch \in QChars}

\* the lists of at most n arguments
RECURSIVE ArgListsUpTo(_)
ArgListsUpTo(n) ==
    IF n = 0 THEN {<<>>}
    ELSE ArgListsUpTo(n - 1)
             \cup {Append(l, a) : l \in ArgListsUpTo(n - 1), a \in StringsUpTo(MaxArgLen)}

InitQuote ==
    /\ platform = "linux"
    /\ files = Paths
    /\ _terminalService = 0
    /\ constructed = <<>>
    /\ calls = <<>>
    /\ qArgs \in ArgListsUpTo(MaxArgs)
    /\ qR = <<>>
    /\ qDone = FALSE

NextQuote == Quote

SpecQuote == InitQuote /\ [][NextQuote]_vars

(***************************************************************************)
(* The claims.                                                             *)
(***************************************************************************)
IsPromiseCall(c) == c.op \in {"launchInTerminal", "killTree"}

C2_WindowsErrorRejects ==
    \A i \in DOMAIN calls :
        (calls[i].op = "launchInTerminal" /\ calls[i].kind = "Windows") =>
            /\ calls[i].errored # "" =>
                   (calls[i].state = "rejected"
                        /\ calls[i].value = [type |-> "Error", code |-> calls[i].errored])
            /\ calls[i].state = "fulfilled" => calls[i].errored = ""

\* C3: on the Default strategy (also Linux and macOS), when the which utility
\* exists, isOnPath runs the probe and returns true exactly when it exits with 0.
C3_DefaultIsOnPathProbes ==
    \A i \in DOMAIN calls :
        (calls[i].op = "isOnPath" /\ calls[i].kind # "Windows" /\ WHICH \in files) =>
            /\ calls[i].ran
            /\ calls[i].ret = "true" <=>
                   (calls[i].sync.how = "status" /\ calls[i].sync.status = 0)

\* C4: isOnPath returns true or false on every strategy, for every program and
\* every outcome of the existence test and of the probe; no exception leaves it.
C4_IsOnPathNeverThrows ==
    \A i \in DOMAIN calls :
        calls[i].op = "isOnPath" => calls[i].ret \in {"true", "false"}

\* C4's case: the probe ran and threw, and the caller got false
C4_Witness ==
    \E i \in DOMAIN calls :
        /\ calls[i].op = "isOnPath"
        /\ calls[i].ran
        /\ calls[i].sync.how = "error"
        /\ calls[i].ret = "false"

\* the strategy the platform identifier stands for
ExpectedKind ==
    CASE platform = "win32" -> "Windows"
      [] platform = "darwin" -> "Mac"
      [] platform = "linux" -> "Linux"
      [] OTHER -> "Default"

\* C5: one strategy is selected for the platform (win32: Windows, darwin: macOS,
\* linux: Linux, anything else: Default); it is constructed by the first call
\* of launchInTerminal, killTree or isOnPath, never again, and every call is
\* served by that one instance.
C5_DispatchOnce ==
    /\ Len(constructed) <= 1
    /\ (_terminalService = 0) <=> (calls = <<>>)
    /\ calls # <<>> => (_terminalService = 1 /\ constructed = <<ExpectedKind>>)
    /\ \A i \in DOMAIN calls : calls[i].kind = ExpectedKind

\* C5's case: an unknown platform after two calls of different operations
C5_Witness ==
    /\ platform = "freebsd"
    /\ Len(calls) >= 2
    /\ calls[1].op # calls[2].op
    /\ _terminalService = 1

\* C6: on Linux without the terminal emulator on disk, launchInTerminal is
\* rejected with a TerminalError of linkId 20002 saying the program was not
\* found; nothing is spawned and the promise is never fulfilled.
C6_LinuxMissingEmulator ==
    \A i \in DOMAIN calls :
        (calls[i].op = "launchInTerminal" /\ calls[i].kind = "Linux"
             /\ "/usr/bin/gnome-terminal" \notin files) =>
            /\ calls[i].state = "rejected"
            /\ calls[i].value.type = "TerminalError"
            /\ calls[i].value.linkId = <<20002>>
            /\ calls[i].value.message = "'/usr/bin/gnome-terminal' not found"
            /\ ~ calls[i].spawned
            /\ calls[i].file = ""

\* C6's case: such a call was made
C6_Witness ==
    \E i \in DOMAIN calls :
        /\ calls[i].op = "launchInTerminal"
        /\ calls[i].kind = "Linux"
        /\ LINUX_TERM \notin files
        /\ calls[i].state = "rejected"

\* C7: the killTree of the Default strategy (Linux, macOS, unknown platforms) is
\* rejected exactly when starting the script fails (a spawn error or an
\* exception), with that error; otherwise it is fulfilled, whatever the exit code.
C7_DefaultKillTree ==
    \A i \in DOMAIN calls :
        (calls[i].op = "killTree" /\ calls[i].kind # "Windows") =>
            /\ calls[i].sync.how \in {"error", "throw"} =>
                   (calls[i].state = "rejected"
                        /\ calls[i].value = [type |-> "Error", code |-> calls[i].sync.error])
            /\ calls[i].sync.how = "status" =>
                   (calls[i].state = "fulfilled" /\ calls[i].value = Undefined)
            /\ calls[i].sync.how \in {"error", "throw", "status"}

\* C7's case: one killTree whose script exited non-zero, one whose spawn failed
C7_Witness ==
    \E i, j \in DOMAIN calls :
        /\ calls[i].op = "killTree" /\ calls[j].op = "killTree"
        /\ calls[i].kind \in {"Default", "Linux", "Mac"}
        /\ calls[i].sync.how = "status" /\ calls[i].sync.status = 1
        /\ calls[i].state = "fulfilled"
        /\ calls[j].sync.how = "error"
        /\ calls[j].state = "rejected"

\* how a shell splits a command line: whitespace separates words, double quotes
\* group.  st is <<words, current word, in a word, in quotes>>.
RECURSIVE ShellScan(_, _)
ShellScan(s, st) ==
    IF s = <<>>
    THEN IF st[3] THEN Append(st[1], st[2]) ELSE st[1]
    ELSE LET ch == Head(s)
         IN  IF st[4]
             THEN IF ch = DQ
                  THEN ShellScan(Tail(s), <<st[1], st[2], TRUE, FALSE>>)
                  ELSE ShellScan(Tail(s), <<st[1], Append(st[2], ch), TRUE, TRUE>>)
             ELSE IF ch = DQ
                  THEN ShellScan(Tail(s), <<st[1], st[2], TRUE, TRUE>>)
                  ELSE IF ch = SP
                       THEN IF st[3]
                            THEN ShellScan(Tail(s), <<Append(st[1], st[2]), <<>>, FALSE, FALSE>>)
                            ELSE ShellScan(Tail(s), st)
                       ELSE ShellScan(Tail(s), <<st[1], Append(st[2], ch), TRUE, FALSE>>)

ShellSplit(s) == ShellScan(s, <<<<>>, <<>>, FALSE, FALSE>>)

\* C8: for an argument list with at least one argument holding a space, the
\* shell splits quote(args) back into exactly the arguments given.
C8_QuoteRoundTrip ==
    (qDone /\ \E k \in DOMAIN qArgs : HasSpace(qArgs[k])) => ShellSplit(qR) = qArgs

\* C9: on Linux with the emulator present, the promise of launchInTerminal is
\* pending until the launcher reports an event; exit code 0 fulfils it with no
\* value, any other exit code rejects it with a TerminalError naming the
\* emulator and the code.
C9_LinuxExit ==
    \A i \in DOMAIN calls :
        (calls[i].op = "launchInTerminal" /\ calls[i].kind = "Linux"
             /\ "/usr/bin/gnome-terminal" \in files) =>
            /\ calls[i].spawned
            /\ (calls[i].exitCode = -1 /\ calls[i].errored = "") => calls[i].state = "pending"
            /\ calls[i].exitCode = 0 =>
                   (calls[i].state = "fulfilled" /\ calls[i].value = [type |-> "undefined"])
            /\ calls[i].exitCode > 0 =>
                   /\ calls[i].state = "rejected"
                   /\ calls[i].value.type = "TerminalError"
                   /\ calls[i].value.message =
                          "/usr/bin/gnome-terminal failed with exit code "
                              \o ToString(calls[i].exitCode)

\* C9, amended: on Linux with the emulator present, when merging the
\* environment or CP.spawn throws, the promise is rejected at once with that
\* exception and there is no launcher; otherwise the launcher is spawned and the
\* promise is pending until the launcher reports an event; exit code 0 fulfils
\* it with no value, any other exit code rejects it with a TerminalError naming
\* the emulator and the code.
C9_LinuxExitOrThrow ==
    \A i \in DOMAIN calls :
        (calls[i].op = "launchInTerminal" /\ calls[i].kind = "Linux"
             /\ "/usr/bin/gnome-terminal" \in files) =>
            /\ calls[i].thrown # "" =>
                   /\ ~ calls[i].spawned
                   /\ calls[i].state = "rejected"
                   /\ calls[i].value = [type |-> "Error", code |-> calls[i].thrown]
                   /\ calls[i].exitCode = -1 /\ calls[i].errored = ""
            /\ calls[i].thrown = "" =>
                   /\ calls[i].spawned
                   /\ (calls[i].exitCode = -1 /\ calls[i].errored = "") =>
                          calls[i].state = "pending"
                   /\ calls[i].exitCode = 0 =>
                          (calls[i].state = "fulfilled"
                               /\ calls[i].value = [type |-> "undefined"])
                   /\ calls[i].exitCode > 0 =>
                          /\ calls[i].state = "rejected"
                          /\ calls[i].value.type = "TerminalError"
                          /\ calls[i].value.message =
                                 "/usr/bin/gnome-terminal failed with exit code "
                                     \o ToString(calls[i].exitCode)

\* C9's case: one launcher exited with 1, another is still running
C9_Witness ==
    \E i, j \in DOMAIN calls :
        /\ calls[i].op = "launchInTerminal" /\ calls[i].kind = "Linux"
        /\ calls[i].exitCode = 1 /\ calls[i].state = "rejected"
        /\ calls[j].op = "launchInTerminal"
        /\ calls[j].spawned /\ calls[j].exitCode = -1 /\ calls[j].state = "pending"

\* the text the child of call i wrote to its error stream in its first n chunks
RECURSIVE WrittenText(_, _)
WrittenText(i, n) ==
    IF n = 0 THEN "" ELSE WrittenText(i, n - 1) \o Chunk(i, n)

\* C10: on macOS, a non-zero exit of the interpreter rejects the promise with a
\* TerminalError whose message is the text this call's interpreter wrote to its
\* error stream before the exit, if any, else the generic message with the exit
\* code; text of another call or text after the exit does not count; exit code
\* 0 fulfils the promise with no value.
C10_MacExit ==
    \A i \in DOMAIN calls :
        (calls[i].op = "launchInTerminal" /\ calls[i].kind = "Mac") =>
            /\ calls[i].exitCode = 0 =>
                   (calls[i].state = "fulfilled" /\ calls[i].value = [type |-> "undefined"])
            /\ calls[i].exitCode > 0 =>
                   /\ calls[i].state = "rejected"
                   /\ calls[i].value.type = "TerminalError"
                   /\ calls[i].value.message =
                          IF calls[i].outAtExit > 0
                          THEN WrittenText(i, calls[i].outAtExit)
                          ELSE "/usr/bin/osascript failed with exit code "
                                   \o ToString(calls[i].exitCode)

\* C10's case: two concurrent calls that both wrote to their error streams; the
\* first exited with 1 after its first chunk and wrote another one after that
C10_Witness ==
    \E i, j \in DOMAIN calls :
        /\ i # j
        /\ calls[i].op = "launchInTerminal" /\ calls[i].kind = "Mac"
        /\ calls[j].op = "launchInTerminal"
        /\ calls[i].exitCode = 1
        /\ calls[i].outAtExit = 1
        /\ calls[i].out > calls[i].outAtExit
        /\ calls[j].out >= 1
        /\ calls[i].state = "rejected"


\* C11: on the Default strategy (also Linux and macOS), when the which utility
\* is not at its fixed path, isOnPath returns true for every program and runs
\* no probe command.
C11_NoWhichReturnsTrue ==
    \A i \in DOMAIN calls :
        (calls[i].op = "isOnPath" /\ calls[i].kind # "Windows"
             /\ "/usr/bin/which" \notin files) =>
            /\ ~ calls[i].ran
            /\ calls[i].command = ""
            /\ calls[i].ret = "true"

====
